---- MODULE Spec2Model ----
(***************************************************************************)
(* Model of the terminal panel of rustfm (src/src/terminal.rs): the        *)
(* scrollback buffer fed by the relay thread through an mpsc channel, the  *)
(* command history with its recall cursor, and the ANSI escape stripper.   *)
(*                                                                         *)
(* Text is modelled as a sequence of characters; a character is a one      *)
(* element string, except NL and ESC which name the two control            *)
(* characters the code tests for.                                          *)
(***************************************************************************)
EXTENDS Integers, Sequences, FiniteSets, TLC

VARIABLES
    scrollback,       \* TerminalPanel.scrollback : Vec<String>
    input_buffer,     \* TerminalPanel.input_buffer : String
    command_history,  \* TerminalPanel.command_history : Vec<String>
    history_index,    \* TerminalPanel.history_index : Option<usize>
    pty_writer,       \* TerminalPanel.pty_writer is Some
    pty_pair,         \* TerminalPanel.pty_pair is Some
    current_dir,      \* TerminalPanel.current_dir
    channel,          \* chunks sent on output_sender, not yet received
    pty_in,           \* byte strings written to the pty writer, in order
    relayPc,          \* the reader thread: "none", "run" or "done"
    uiPc,             \* the UI thread: "idle", "update" inside update()'s loop,
                      \* "dropping", "fields", "dropped" along the panel's drop
    readLog,          \* history: chunks the reader thread read, in order
    applied,          \* history: arguments of process_output, in order
    clearedAt,        \* history: Len(applied) at the last Clear, -1 if none
    lastOp,           \* history: the handler that ran last
    enters,           \* history: number of execute_command calls
    shell,            \* the shell process: "none", "running" or "exited"
    spawnResult,      \* history: how spawn_shell ended
    enterRecalled,    \* history: a recall was in progress at the last execute_command
    lastSetDir,       \* history: Some(argument of the last set_directory call)
    setDirSame,       \* history: that call found its argument already tracked
    sanIn,            \* argument of strip_ansi_escapes
    sanOut,           \* Some(its result), None before the call
    query,            \* SearchPanel.query : String
    results,          \* number of entries of SearchPanel.results
    is_searching,     \* the shared flag SearchPanel.is_searching
    search_in_progress,
                      \* SearchPanel.search_in_progress
    searchUiPc,       \* the UI thread inside execute_search: "idle", "set_flag"
                      \* after the clear, "spawn" after the flag is set
    searchPc,         \* the search threads: "none", "walk" inside
                      \* search_directory, "returned" after it, "done"
    lastSearchOp      \* history: the search panel step that ran last

vars == <<scrollback, input_buffer, command_history, history_index,
          pty_writer, pty_pair, current_dir, channel, pty_in, relayPc, uiPc,
          readLog, applied, clearedAt, lastOp, enters, shell, spawnResult,
          enterRecalled, lastSetDir, setDirSame, sanIn, sanOut,
          query, results, is_searching, search_in_progress, searchUiPc,
          searchPc, lastSearchOp>>

navVars == <<lastSetDir, setDirSame>>

searchVars == <<query, results, is_searching, search_in_progress, searchUiPc,
                searchPc, lastSearchOp>>

panelVars == <<scrollback, input_buffer, command_history, history_index,
               pty_writer, pty_pair, current_dir, channel, pty_in, relayPc,
               uiPc, readLog, applied, clearedAt, lastOp, enters, shell,
               spawnResult, enterRecalled, navVars>>

sanVars == <<sanIn, sanOut>>

----------------------------------------------------------------------------
(* Characters and text                                                     *)

NL == "NL"
ESC == "ESC"
\* Option<T>: None is the empty sequence, Some(x) the one element sequence.
None == <<>>
Some(x) == <<x>>

Min(a, b) == IF a < b THEN a ELSE b

\* All sequences over S of length at most n.
RECURSIVE SeqsUpTo(_, _)
SeqsUpTo(S, n) ==
    IF n = 0 THEN {<<>>}
    ELSE LET shorter == SeqsUpTo(S, n - 1)
         IN  shorter \cup {Append(s, c) : s \in shorter, c \in S}

\* str.ends_with('\n')
EndsWithNL(s) == Len(s) > 0 /\ s[Len(s)] = NL

\* str.split('\n').collect(): one more segment than there are newlines.
\* The segments of s[lo..hi] are those of its two halves, the last segment
\* of the left half running on into the first of the right half.
RECURSIVE SplitRange(_, _, _)
SplitRange(s, lo, hi) ==
    IF lo > hi THEN << <<>> >>
    ELSE IF lo = hi
         THEN IF s[lo] = NL THEN << <<>>, <<>> >> ELSE << <<s[lo]>> >>
         ELSE LET mid == (lo + hi) \div 2
                  L == SplitRange(s, lo, mid)
                  R == SplitRange(s, mid + 1, hi)
              IN  SubSeq(L, 1, Len(L) - 1) \o <<L[Len(L)] \o R[1]>> \o Tail(R)

Split(s) == SplitRange(s, 1, Len(s))

----------------------------------------------------------------------------
(* Scrollback: TerminalPanel::process_output                               *)

ScrollbackCap == 1000

\* The for loop over the segments (terminal.rs 153-164).  Every segment
\* but the last is pushed; the last one is pushed too when the output ends
\* with a newline, and is otherwise appended to whatever entry is last in
\* the scrollback at that point of the loop (pushed alone if there is none).
PushLines(sb, lines, endsNL) ==
    IF endsNL THEN sb \o lines
    ELSE LET n == Len(lines)
             pushed == sb \o SubSeq(lines, 1, n - 1)
         IN  IF pushed # <<>>
             THEN [pushed EXCEPT ![Len(pushed)] = @ \o lines[n]]
             ELSE Append(pushed, lines[n])

\* Variant: the cap is enforced by dropping entries at the back (truncate).
LimitScrollback_DropNewest(sb) ==
    IF Len(sb) > ScrollbackCap THEN SubSeq(sb, 1, ScrollbackCap) ELSE sb

\* while self.scrollback.len() > 1000 { self.scrollback.remove(0); }
\* Each round removes the first entry, so the loop leaves the last 1000.
LimitScrollback(sb) ==
    IF Len(sb) > ScrollbackCap
    THEN SubSeq(sb, Len(sb) - ScrollbackCap + 1, Len(sb))
    ELSE sb

process_output(sb, output) ==
    LimitScrollback(PushLines(sb, Split(output), EndsWithNL(output)))

----------------------------------------------------------------------------
(* Construction: TerminalPanel::new and spawn_shell                        *)

InitialDir == <<"/", "t", "m", "p">>

\* The message texts are kept as one element each; only the formatted
\* argument and the trailing newline are spelled out.
WelcomeLine(dir) == <<"Terminal ready in: ">> \o dir \o <<NL>>
PtyOpenError == <<"Failed to open PTY: ", "e">>
ShellSpawnError == <<"Failed to spawn shell: ", "e">>
WriterError == <<"Failed to get PTY writer: ", "e">>
ReaderError == <<"Failed to get PTY reader: ", "e">>

\* Variant: the pair is stored before the reader is cloned, so that a panel
\* whose reader could not be cloned holds a pair and has no reader thread.
SpawnOutcomes_PairBeforeReader ==
    { [result |-> "pty_open_failed", line |-> PtyOpenError,
       writer |-> FALSE, pair |-> FALSE, relay |-> "none", shell |-> "none"],
      [result |-> "spawn_failed", line |-> ShellSpawnError,
       writer |-> FALSE, pair |-> FALSE, relay |-> "none", shell |-> "none"],
      [result |-> "writer_failed", line |-> WriterError,
       writer |-> FALSE, pair |-> FALSE, relay |-> "none", shell |-> "running"],
      [result |-> "reader_failed", line |-> ReaderError,
       writer |-> TRUE, pair |-> TRUE, relay |-> "none", shell |-> "running"],
      [result |-> "ready", line |-> WelcomeLine(InitialDir),
       writer |-> TRUE, pair |-> TRUE, relay |-> "run", shell |-> "running"] }

\* spawn_shell returns early at each failure point; the writer is stored
\* before the reader is cloned, the pair only after the thread is spawned.
\* The shell process exists once spawn_command has succeeded.
SpawnOutcomes ==
    { [result |-> "pty_open_failed", line |-> PtyOpenError,
       writer |-> FALSE, pair |-> FALSE, relay |-> "none", shell |-> "none"],
      [result |-> "spawn_failed", line |-> ShellSpawnError,
       writer |-> FALSE, pair |-> FALSE, relay |-> "none", shell |-> "none"],
      [result |-> "writer_failed", line |-> WriterError,
       writer |-> FALSE, pair |-> FALSE, relay |-> "none", shell |-> "running"],
      [result |-> "reader_failed", line |-> ReaderError,
       writer |-> TRUE, pair |-> FALSE, relay |-> "none", shell |-> "running"],
      [result |-> "ready", line |-> WelcomeLine(InitialDir),
       writer |-> TRUE, pair |-> TRUE, relay |-> "run", shell |-> "running"] }

PanelInit ==
    \E o \in SpawnOutcomes :
        /\ scrollback = <<o.line>>
        /\ input_buffer = <<>>
        /\ command_history = <<>>
        /\ history_index = None
        /\ pty_writer = o.writer
        /\ pty_pair = o.pair
        /\ current_dir = InitialDir
        /\ channel = <<>>
        /\ pty_in = <<>>
        /\ relayPc = o.relay
        /\ uiPc = "idle"
        /\ readLog = <<>>
        /\ applied = <<>>
        /\ clearedAt = -1
        /\ lastOp = "new"
        /\ enters = 0
        /\ shell = o.shell
        /\ spawnResult = o.result
        /\ enterRecalled = FALSE
        /\ lastSetDir = None
        /\ setDirSame = FALSE

----------------------------------------------------------------------------
(* The reader thread (terminal.rs 117-131)                                 *)

\* The two history variables readLog and applied record the first MaxLog
\* chunks only, so that they stay finite when the shell prints for ever.
MaxLog == 8
Logged(log, c) == IF Len(log) < MaxLog THEN Append(log, c) ELSE log

\* Variant: the result of send is ignored, the loop goes on after a failure.
RelayRead_IgnoresSendError(c) ==
    /\ relayPc = "run"
    /\ shell = "running"
    /\ readLog' = Logged(readLog, c)
    /\ IF uiPc # "dropped"
       THEN channel' = Append(channel, c)
       ELSE UNCHANGED channel
    /\ UNCHANGED <<scrollback, input_buffer, command_history, history_index,
                   pty_writer, pty_pair, current_dir, pty_in, relayPc, uiPc,
                   applied, clearedAt, lastOp, enters, shell, spawnResult,
                   enterRecalled, sanIn, sanOut, navVars, searchVars>>

\* Ok(n), n > 0: the shell has printed c; the chunk is decoded and sent.
\* The channel is unbounded, so the send succeeds as long as the panel,
\* which owns output_receiver, exists; after that it fails and the loop
\* breaks.
RelayRead(c) ==
    /\ relayPc = "run"
    /\ shell = "running"
    /\ readLog' = Logged(readLog, c)
    /\ IF uiPc # "dropped"
       THEN channel' = Append(channel, c) /\ UNCHANGED relayPc
       ELSE relayPc' = "done" /\ UNCHANGED channel
    /\ UNCHANGED <<scrollback, input_buffer, command_history, history_index,
                   pty_writer, pty_pair, current_dir, pty_in, uiPc,
                   applied, clearedAt, lastOp, enters, shell, spawnResult,
                   enterRecalled, sanIn, sanOut, navVars, searchVars>>

\* The shell process ends by itself (the panel keeps no handle on it: the
\* Child returned by spawn_command is discarded, terminal.rs 88-89).
ShellExit ==
    /\ shell = "running"
    /\ shell' = "exited"
    /\ UNCHANGED <<scrollback, input_buffer, command_history, history_index,
                   pty_writer, pty_pair, current_dir, channel, pty_in, relayPc,
                   uiPc, readLog, applied, clearedAt, lastOp, enters,
                   spawnResult, enterRecalled, sanIn, sanOut,
                   navVars, searchVars>>

\* Ok(0) or Err(_): break.  The blocking read on the thread's own clone of
\* the master returns without data once the shell side is closed.
RelayStop ==
    /\ relayPc = "run"
    /\ shell = "exited"
    /\ relayPc' = "done"
    /\ UNCHANGED <<scrollback, input_buffer, command_history, history_index,
                   pty_writer, pty_pair, current_dir, channel, pty_in, uiPc,
                   readLog, applied, clearedAt, lastOp, enters, shell,
                   spawnResult, enterRecalled, sanIn, sanOut,
                   navVars, searchVars>>

----------------
(* TerminalPanel::update (terminal.rs 142-147), one loop iteration a step  *)

\* Variant: the newest pending chunk is taken instead of the oldest.
try_recv_Newest(ch) ==
    IF ch = <<>> THEN [ok |-> FALSE, rest |-> ch]
    ELSE [ok |-> TRUE, output |-> ch[Len(ch)], rest |-> SubSeq(ch, 1, Len(ch) - 1)]

\* Receiver::try_recv on the channel: the oldest pending chunk is taken
\* out, or Err(Empty) at once when there is none.
try_recv(ch) ==
    IF ch = <<>> THEN [ok |-> FALSE, rest |-> ch]
    ELSE [ok |-> TRUE, output |-> Head(ch), rest |-> Tail(ch)]

\* Variant: the received chunk is dropped, process_output is not called.
UpdateRecv_SkipsChunk ==
    /\ uiPc \in {"idle", "update"}
    /\ try_recv(channel).ok
    /\ channel' = try_recv(channel).rest
    /\ uiPc' = "update"
    /\ lastOp' = "update"
    /\ UNCHANGED <<scrollback, applied, input_buffer, command_history,
                   history_index, pty_writer, pty_pair, current_dir, pty_in,
                   relayPc, readLog, clearedAt, enters, shell, spawnResult,
                   enterRecalled, sanIn, sanOut, navVars, searchVars>>

\* try_recv returned Ok(output): the loop body runs.
UpdateRecv ==
    /\ uiPc \in {"idle", "update"}
    /\ try_recv(channel).ok
    /\ scrollback' = process_output(scrollback, try_recv(channel).output)
    /\ applied' = Logged(applied, try_recv(channel).output)
    /\ channel' = try_recv(channel).rest
    /\ uiPc' = "update"
    /\ lastOp' = "update"
    /\ UNCHANGED <<input_buffer, command_history, history_index, pty_writer,
                   pty_pair, current_dir, pty_in, relayPc, readLog, clearedAt,
                   enters, shell, spawnResult, enterRecalled,
                   sanIn, sanOut, navVars, searchVars>>

\* Variant: a blocking recv in place of try_recv; the panel keeps a sender,
\* so on an empty channel the call does not return.
UpdateReturn_Blocking ==
    /\ FALSE
    /\ uiPc' = "idle"
    /\ lastOp' = "update"
    /\ UNCHANGED <<scrollback, input_buffer, command_history, history_index,
                   pty_writer, pty_pair, current_dir, channel, pty_in, relayPc,
                   readLog, applied, clearedAt, enters, shell, spawnResult, enterRecalled,
                   sanIn, sanOut, navVars, searchVars>>

\* try_recv returned Err: the loop ends and update returns.
UpdateReturn ==
    /\ uiPc \in {"idle", "update"}
    /\ ~try_recv(channel).ok
    /\ channel' = try_recv(channel).rest
    /\ uiPc' = "idle"
    /\ lastOp' = "update"
    /\ UNCHANGED <<scrollback, input_buffer, command_history, history_index,
                   pty_writer, pty_pair, current_dir, pty_in, relayPc,
                   readLog, applied, clearedAt, enters, shell, spawnResult, enterRecalled,
                   sanIn, sanOut, navVars, searchVars>>

\* render: the Clear button (terminal.rs 241-243).
Clear ==
    /\ uiPc = "idle"
    /\ scrollback' = <<>>
    /\ clearedAt' = Len(applied)
    /\ lastOp' = "clear"
    /\ UNCHANGED <<input_buffer, command_history, history_index, pty_writer,
                   pty_pair, current_dir, channel, pty_in, relayPc, uiPc,
                   readLog, applied, enters, shell, spawnResult, enterRecalled,
                   sanIn, sanOut, navVars, searchVars>>

----------------------------------------------------------------------------
(* The input line: execute_command, history_prev, history_next             *)

HistoryCap == 100

IsWhitespace(c) == c \in {" ", "\t", NL}

\* command.trim().is_empty()
TrimIsEmpty(s) == \A i \in 1..Len(s) : IsWhitespace(s[i])

\* Variant: the writer is used without the test that it is set.
WriteAll_Unchecked(bytes) == pty_in' = Append(pty_in, bytes)

\* if let Some(writer) = &mut self.pty_writer { write_all(bytes); flush() }
\* The results of write_all and flush are discarded (let _ =): bytes written
\* once the shell has exited reach no shell and the caller does not notice.
WriteAll(bytes) ==
    pty_in' = IF pty_writer /\ shell = "running"
              THEN Append(pty_in, bytes)
              ELSE pty_in

\* Variant: the entry dropped at the cap is the newest one (pop).
PushHistory_DropNewest(h, command) ==
    LET pushed == Append(h, command)
    IN  IF Len(pushed) > HistoryCap
        THEN SubSeq(pushed, 1, Len(pushed) - 1)
        ELSE pushed

\* push, then remove(0) once the length is over 100 (terminal.rs 184-187).
PushHistory(h, command) ==
    LET pushed == Append(h, command)
    IN  IF Len(pushed) > HistoryCap THEN Tail(pushed) ELSE pushed

\* render: the text field edits input_buffer in place (terminal.rs 270-275).
TypeInput(s) ==
    /\ uiPc = "idle"
    /\ input_buffer' = s
    /\ lastOp' = "type"
    /\ UNCHANGED <<scrollback, command_history, history_index, pty_writer,
                   pty_pair, current_dir, channel, pty_in, relayPc, uiPc,
                   readLog, applied, clearedAt, enters, shell, spawnResult, enterRecalled,
                   sanIn, sanOut, navVars, searchVars>>

\* Variant: the cursor is not reset by a submission.
Enter_KeepsCursor ==
    /\ uiPc = "idle"
    /\ IF TrimIsEmpty(input_buffer)
       THEN /\ WriteAll(<<NL>>)
            /\ UNCHANGED <<command_history, history_index, input_buffer>>
       ELSE /\ command_history' = PushHistory(command_history, input_buffer)
            /\ UNCHANGED history_index
            /\ WriteAll(input_buffer \o <<NL>>)
            /\ input_buffer' = <<>>
    /\ lastOp' = "enter"
    /\ enters' = enters + 1
    /\ enterRecalled' = (history_index # None)
    /\ UNCHANGED <<scrollback, pty_writer, pty_pair, current_dir, channel,
                   relayPc, uiPc, readLog, applied, clearedAt, shell,
                   spawnResult, sanIn, sanOut, navVars, searchVars>>

\* Variant: no test for an empty line, every line is submitted.
Enter_NoTrimCheck ==
    /\ uiPc = "idle"
    /\ command_history' = PushHistory(command_history, input_buffer)
    /\ history_index' = None
    /\ WriteAll(input_buffer \o <<NL>>)
    /\ input_buffer' = <<>>
    /\ lastOp' = "enter"
    /\ enters' = enters + 1
    /\ enterRecalled' = (history_index # None)
    /\ UNCHANGED <<scrollback, pty_writer, pty_pair, current_dir, channel,
                   relayPc, uiPc, readLog, applied, clearedAt, shell,
                   spawnResult, sanIn, sanOut, navVars, searchVars>>

\* Variant: the input line is not cleared after a submission.
Enter_KeepsInput ==
    /\ uiPc = "idle"
    /\ IF TrimIsEmpty(input_buffer)
       THEN /\ WriteAll(<<NL>>)
            /\ UNCHANGED <<command_history, history_index, input_buffer>>
       ELSE /\ command_history' = PushHistory(command_history, input_buffer)
            /\ history_index' = None
            /\ WriteAll(input_buffer \o <<NL>>)
            /\ UNCHANGED input_buffer
    /\ lastOp' = "enter"
    /\ enters' = enters + 1
    /\ enterRecalled' = (history_index # None)
    /\ UNCHANGED <<scrollback, pty_writer, pty_pair, current_dir, channel,
                   relayPc, uiPc, readLog, applied, clearedAt, shell,
                   spawnResult, sanIn, sanOut, navVars, searchVars>>

\* render: Enter calls execute_command (terminal.rs 172-198, 283-286).
Enter ==
    /\ uiPc = "idle"
    /\ IF TrimIsEmpty(input_buffer)
       THEN /\ WriteAll(<<NL>>)
            /\ UNCHANGED <<command_history, history_index, input_buffer>>
       ELSE /\ command_history' = PushHistory(command_history, input_buffer)
            /\ history_index' = None
            /\ WriteAll(input_buffer \o <<NL>>)
            /\ input_buffer' = <<>>
    /\ lastOp' = "enter"
    /\ enters' = enters + 1
    /\ enterRecalled' = (history_index # None)
    /\ UNCHANGED <<scrollback, pty_writer, pty_pair, current_dir, channel,
                   relayPc, uiPc, readLog, applied, clearedAt, shell,
                   spawnResult, sanIn, sanOut, navVars, searchVars>>

\* Variant: the first recall starts at the oldest entry.
HistoryPrev_FromOldest ==
    /\ uiPc = "idle"
    /\ IF command_history = <<>>
       THEN UNCHANGED <<history_index, input_buffer>>
       ELSE IF history_index = None
       THEN /\ history_index' = Some(0)
            /\ input_buffer' = command_history[1]
       ELSE IF history_index[1] > 0
       THEN /\ history_index' = Some(history_index[1] - 1)
            /\ input_buffer' = command_history[(history_index[1] - 1) + 1]
       ELSE UNCHANGED <<history_index, input_buffer>>
    /\ lastOp' = "history_prev"
    /\ UNCHANGED <<scrollback, command_history, pty_writer, pty_pair,
                   current_dir, channel, pty_in, relayPc, uiPc, readLog,
                   applied, clearedAt, enters, shell, spawnResult, enterRecalled,
                   sanIn, sanOut, navVars, searchVars>>

\* render: ArrowUp calls history_prev (terminal.rs 200-216).  Indices are
\* 0-based as in the code; entry idx is command_history[idx + 1] here.
HistoryPrev ==
    /\ uiPc = "idle"
    /\ IF command_history = <<>>
       THEN UNCHANGED <<history_index, input_buffer>>
       ELSE IF history_index = None
       THEN /\ history_index' = Some(Len(command_history) - 1)
            /\ input_buffer' = command_history[Len(command_history)]
       ELSE IF history_index[1] > 0
       THEN /\ history_index' = Some(history_index[1] - 1)
            /\ input_buffer' = command_history[(history_index[1] - 1) + 1]
       ELSE UNCHANGED <<history_index, input_buffer>>
    /\ lastOp' = "history_prev"
    /\ UNCHANGED <<scrollback, command_history, pty_writer, pty_pair,
                   current_dir, channel, pty_in, relayPc, uiPc, readLog,
                   applied, clearedAt, enters, shell, spawnResult, enterRecalled,
                   sanIn, sanOut, navVars, searchVars>>

\* Variant: the cursor moves on from the newest entry as well.
HistoryNext_PastEnd ==
    /\ uiPc = "idle"
    /\ IF history_index = None
       THEN UNCHANGED <<history_index, input_buffer>>
       ELSE /\ history_index' = Some(history_index[1] + 1)
            /\ input_buffer' =
                  IF history_index[1] < Len(command_history) - 1
                  THEN command_history[(history_index[1] + 1) + 1]
                  ELSE <<>>
    /\ lastOp' = "history_next"
    /\ UNCHANGED <<scrollback, command_history, pty_writer, pty_pair,
                   current_dir, channel, pty_in, relayPc, uiPc, readLog,
                   applied, clearedAt, enters, shell, spawnResult,
                   enterRecalled, sanIn, sanOut, navVars, searchVars>>

\* render: ArrowDown calls history_next (terminal.rs 218-230).
HistoryNext ==
    /\ uiPc = "idle"
    /\ IF history_index = None
       THEN UNCHANGED <<history_index, input_buffer>>
       ELSE IF history_index[1] < Len(command_history) - 1
       THEN /\ history_index' = Some(history_index[1] + 1)
            /\ input_buffer' = command_history[(history_index[1] + 1) + 1]
       ELSE /\ history_index' = None
            /\ input_buffer' = <<>>
    /\ lastOp' = "history_next"
    /\ UNCHANGED <<scrollback, command_history, pty_writer, pty_pair,
                   current_dir, channel, pty_in, relayPc, uiPc, readLog,
                   applied, clearedAt, enters, shell, spawnResult, enterRecalled,
                   sanIn, sanOut, navVars, searchVars>>

----------------------------------------------------------------------------
(* Writes that bypass the input line: set_directory and Ctrl+C             *)

\* Variant: the path is not quoted.
cd_command_NoQuotes(path) == <<"c", "d", " ">> \o path \o <<NL>>

\* format!("cd \"{}\"\n", path.display())
cd_command(path) == <<"c", "d", " ", "\"">> \o path \o <<"\"", NL>>

\* &[0x03]
ETX == "ETX"

\* Variant: the directory is tracked only when the cd was delivered.
SetDirectory_TrackOnDelivery(path) ==
    /\ uiPc = "idle"
    /\ IF current_dir # path
       THEN /\ current_dir' = IF pty_writer /\ shell = "running"
                              THEN path ELSE current_dir
            /\ WriteAll(cd_command(path))
       ELSE UNCHANGED <<current_dir, pty_in>>
    /\ lastOp' = "set_directory"
    /\ lastSetDir' = Some(path)
    /\ setDirSame' = (current_dir = path)
    /\ UNCHANGED <<scrollback, input_buffer, command_history, history_index,
                   pty_writer, pty_pair, channel, relayPc, uiPc, readLog,
                   applied, clearedAt, enters, shell, spawnResult,
                   enterRecalled, sanIn, sanOut, searchVars>>

\* TerminalPanel::set_directory (terminal.rs 47-57), called by
\* FileExplorerApp::navigate_to (app.rs 38-43).
SetDirectory(path) ==
    /\ uiPc = "idle"
    /\ IF current_dir # path
       THEN /\ current_dir' = path
            /\ WriteAll(cd_command(path))
       ELSE UNCHANGED <<current_dir, pty_in>>
    /\ lastOp' = "set_directory"
    /\ lastSetDir' = Some(path)
    /\ setDirSame' = (current_dir = path)
    /\ UNCHANGED <<scrollback, input_buffer, command_history, history_index,
                   pty_writer, pty_pair, channel, relayPc, uiPc, readLog,
                   applied, clearedAt, enters, shell, spawnResult,
                   enterRecalled, sanIn, sanOut, searchVars>>

\* Variant: Ctrl+C also empties the input line.
Interrupt_ClearsInput ==
    /\ uiPc = "idle"
    /\ WriteAll(<<ETX>>)
    /\ input_buffer' = <<>>
    /\ lastOp' = "interrupt"
    /\ UNCHANGED <<scrollback, command_history, history_index,
                   pty_writer, pty_pair, current_dir, channel, relayPc, uiPc,
                   readLog, applied, clearedAt, enters, shell, spawnResult,
                   enterRecalled, sanIn, sanOut, navVars, searchVars>>

\* render: Ctrl+C (terminal.rs 295-301).
Interrupt ==
    /\ uiPc = "idle"
    /\ WriteAll(<<ETX>>)
    /\ lastOp' = "interrupt"
    /\ UNCHANGED <<scrollback, input_buffer, command_history, history_index,
                   pty_writer, pty_pair, current_dir, channel, relayPc, uiPc,
                   readLog, applied, clearedAt, enters, shell, spawnResult,
                   enterRecalled, sanIn, sanOut, navVars, searchVars>>

----------------------------------------------------------------------------
(* impl Drop for TerminalPanel (terminal.rs 334-340)                       *)

\* Variant: the first statement of drop releases the pair.
DropWriter_PairFirst ==
    /\ uiPc = "idle"
    /\ pty_pair' = FALSE
    /\ uiPc' = "dropping"
    /\ lastOp' = "drop"
    /\ UNCHANGED <<scrollback, input_buffer, command_history, history_index,
                   pty_writer, current_dir, channel, pty_in, relayPc, readLog,
                   applied, clearedAt, enters, shell, spawnResult,
                   enterRecalled, sanIn, sanOut, navVars, searchVars>>

\* self.pty_writer = None;
DropWriter ==
    /\ uiPc = "idle"
    /\ pty_writer' = FALSE
    /\ uiPc' = "dropping"
    /\ lastOp' = "drop"
    /\ UNCHANGED <<scrollback, input_buffer, command_history, history_index,
                   pty_pair, current_dir, channel, pty_in, relayPc, readLog,
                   applied, clearedAt, enters, shell, spawnResult,
                   enterRecalled, sanIn, sanOut, navVars, searchVars>>

\* self.pty_pair = None;
DropPair ==
    /\ uiPc = "dropping"
    /\ pty_pair' = FALSE
    /\ uiPc' = "fields"
    /\ UNCHANGED <<scrollback, input_buffer, command_history, history_index,
                   pty_writer, current_dir, channel, pty_in, relayPc, readLog,
                   applied, clearedAt, lastOp, enters, shell, spawnResult,
                   enterRecalled, sanIn, sanOut, navVars, searchVars>>

\* After the body of drop the fields go, output_receiver among them: the
\* chunks still in the channel are lost and later sends fail.
DropFields ==
    /\ uiPc = "fields"
    /\ channel' = <<>>
    /\ uiPc' = "dropped"
    /\ UNCHANGED <<scrollback, input_buffer, command_history, history_index,
                   pty_writer, pty_pair, current_dir, pty_in, relayPc, readLog,
                   applied, clearedAt, lastOp, enters, shell, spawnResult,
                   enterRecalled, sanIn, sanOut, navVars, searchVars>>

----------------------------------------------------------------------------
(* The search panel (src/src/search.rs): execute_search on the UI thread   *)
(* and the search threads it spawns, which share results and is_searching  *)
(* behind one mutex each                                                   *)

ResultsCap == 1000

\* The search threads a session gets to start.
MaxSearches == 2
Threads == 1..MaxSearches

\* SearchPanel::new
SearchInit ==
    /\ query = <<>>
    /\ results = 0
    /\ is_searching = FALSE
    /\ search_in_progress = FALSE
    /\ searchUiPc = "idle"
    /\ searchPc = [t \in Threads |-> "none"]
    /\ lastSearchOp = "new"

\* render: the text field edits query (search.rs 105-109).
TypeQuery(q) ==
    /\ searchUiPc = "idle"
    /\ query' = q
    /\ lastSearchOp' = "type"
    /\ UNCHANGED <<results, is_searching, search_in_progress, searchUiPc,
                   searchPc>>
    /\ UNCHANGED <<panelVars, sanVars>>

\* execute_search up to the end of the first lock scope (search.rs 59-73):
\* it returns at once on an empty query and otherwise clears the results.
ExecuteSearchClear ==
    /\ searchUiPc = "idle"
    /\ IF query = <<>>
       THEN UNCHANGED <<results, searchUiPc>>
       ELSE /\ results' = 0
            /\ searchUiPc' = "set_flag"
    /\ lastSearchOp' = "execute"
    /\ UNCHANGED <<query, is_searching, search_in_progress, searchPc>>
    /\ UNCHANGED <<panelVars, sanVars>>

\* *s = true under the flag's lock; self.search_in_progress = true
\* (search.rs 76-79).
ExecuteSearchSetFlag ==
    /\ searchUiPc = "set_flag"
    /\ is_searching' = TRUE
    /\ search_in_progress' = TRUE
    /\ searchUiPc' = "spawn"
    /\ UNCHANGED <<query, results, searchPc, lastSearchOp>>
    /\ UNCHANGED <<panelVars, sanVars>>

\* thread::spawn (search.rs 82): the next thread starts search_directory.
ExecuteSearchSpawn ==
    /\ searchUiPc = "spawn"
    /\ \E t \in Threads :
          /\ searchPc[t] = "none"
          /\ \A u \in Threads : u < t => searchPc[u] # "none"
          /\ searchPc' = [searchPc EXCEPT ![t] = "walk"]
    /\ searchUiPc' = "idle"
    /\ UNCHANGED <<query, results, is_searching, search_in_progress,
                   lastSearchOp>>
    /\ UNCHANGED <<panelVars, sanVars>>

\* search_directory: a matching line is found; under the lock the result
\* is pushed and then the length is tested (search.rs 265-280).
SearchPush(t) ==
    /\ searchPc[t] = "walk"
    /\ results' = results + 1
    /\ searchPc' = [searchPc EXCEPT
                      ![t] = IF results + 1 >= ResultsCap
                             THEN "returned" ELSE "walk"]
    /\ UNCHANGED <<query, is_searching, search_in_progress, searchUiPc,
                   lastSearchOp>>
    /\ UNCHANGED <<panelVars, sanVars>>

\* search_directory: the walk is over (search.rs 237, 284-285).
SearchWalkEnd(t) ==
    /\ searchPc[t] = "walk"
    /\ searchPc' = [searchPc EXCEPT ![t] = "returned"]
    /\ UNCHANGED <<query, results, is_searching, search_in_progress,
                   searchUiPc, lastSearchOp>>
    /\ UNCHANGED <<panelVars, sanVars>>

\* The end of the thread's closure: *s = false (search.rs 85-87).
SearchClearFlag(t) ==
    /\ searchPc[t] = "returned"
    /\ is_searching' = FALSE
    /\ searchPc' = [searchPc EXCEPT ![t] = "done"]
    /\ UNCHANGED <<query, results, search_in_progress, searchUiPc,
                   lastSearchOp>>
    /\ UNCHANGED <<panelVars, sanVars>>

----------------------------------------------------------------------------
(* strip_ansi_escapes (terminal.rs 308-332)                                *)

Letters ==
    {"a", "b", "c", "d", "e", "f", "g", "h", "i", "j", "k", "l", "m",
     "n", "o", "p", "q", "r", "s", "t", "u", "v", "w", "x", "y", "z",
     "A", "B", "C", "D", "E", "F", "G", "H", "I", "J", "K", "L", "M",
     "N", "O", "P", "Q", "R", "S", "T", "U", "V", "W", "X", "Y", "Z"}

\* char::is_ascii_alphabetic
is_ascii_alphabetic(c) == c \in Letters

\* Variant: the loop ends before the letter is consumed.
RECURSIVE ConsumeCsi_KeepLetter(_, _)
ConsumeCsi_KeepLetter(s, j) ==
    IF j > Len(s) THEN j
    ELSE IF is_ascii_alphabetic(s[j]) THEN j
    ELSE ConsumeCsi_KeepLetter(s, j + 1)

\* The inner while (319-324): every peeked character is consumed, the loop
\* ends after a letter or at the end of the text.  The result is the
\* position of the next unconsumed character.
RECURSIVE ConsumeCsi(_, _)
ConsumeCsi(s, j) ==
    IF j > Len(s) THEN j
    ELSE IF is_ascii_alphabetic(s[j]) THEN j + 1
    ELSE ConsumeCsi(s, j + 1)

\* Variant: an escape character that starts no CSI sequence is copied.
RECURSIVE StripFrom_KeepLoneEsc(_, _, _)
StripFrom_KeepLoneEsc(s, i, result) ==
    IF i > Len(s) THEN result
    ELSE IF s[i] = ESC /\ i + 1 <= Len(s) /\ s[i + 1] = "["
         THEN StripFrom_KeepLoneEsc(s, ConsumeCsi(s, i + 2), result)
         ELSE StripFrom_KeepLoneEsc(s, i + 1, Append(result, s[i]))

\* Variant: a '[' starts a sequence also without an escape character.
RECURSIVE StripFrom_BareBracket(_, _, _)
StripFrom_BareBracket(s, i, result) ==
    IF i > Len(s) THEN result
    ELSE IF s[i] = ESC
         THEN IF i + 1 <= Len(s) /\ s[i + 1] = "["
              THEN StripFrom_BareBracket(s, ConsumeCsi(s, i + 2), result)
              ELSE StripFrom_BareBracket(s, i + 1, result)
         ELSE IF s[i] = "["
              THEN StripFrom_BareBracket(s, ConsumeCsi(s, i + 1), result)
              ELSE StripFrom_BareBracket(s, i + 1, Append(result, s[i]))

\* Variant: an escape character that starts no CSI sequence takes the
\* character after it along.
RECURSIVE StripFrom_DropFollower(_, _, _)
StripFrom_DropFollower(s, i, result) ==
    IF i > Len(s) THEN result
    ELSE IF s[i] = ESC
         THEN IF i + 1 <= Len(s) /\ s[i + 1] = "["
              THEN StripFrom_DropFollower(s, ConsumeCsi(s, i + 2), result)
              ELSE StripFrom_DropFollower(s, i + 2, result)
         ELSE StripFrom_DropFollower(s, i + 1, Append(result, s[i]))

\* The outer while (313-329), from position i on.
RECURSIVE StripFrom(_, _, _)
StripFrom(s, i, result) ==
    IF i > Len(s) THEN result
    ELSE IF s[i] = ESC
         THEN IF i + 1 <= Len(s) /\ s[i + 1] = "["
              THEN StripFrom(s, ConsumeCsi(s, i + 2), result)
              ELSE StripFrom(s, i + 1, result)
         ELSE StripFrom(s, i + 1, Append(result, s[i]))

strip_ansi_escapes(s) == StripFrom(s, 1, <<>>)

\* One call of the function on the drawn argument.
StripCall ==
    /\ sanOut = None
    /\ sanOut' = Some(strip_ansi_escapes(sanIn))
    /\ UNCHANGED <<sanIn>>
    /\ UNCHANGED panelVars
    /\ UNCHANGED searchVars

----------------------------------------------------------------------------
(* Inputs and bounds                                                       *)

MaxReads == 3        \* chunks the shell produces in the output scenarios
BigLines == 600      \* newlines in the large chunk (a read holds up to 1024 bytes)
MaxUIReads == 1      \* chunks the shell produces in the input scenarios
MaxEnters == 3       \* presses of Enter in the input scenarios
MaxEvict == 2        \* submissions past a full history
FreeLen == 1         \* presses of Enter before the history is filled with one command
MaxSanLen == 5       \* length of the enumerated sanitizer arguments
MaxWrites == 3       \* writes to the shell in the writer scenarios
MaxDropReads == 2    \* chunks the shell produces in the teardown scenarios
MaxPending == 2      \* chunks waiting in the channel of a printing shell
MaxAnsiReads == 3    \* chunks the shell produces in the colour scenarios

ABC == <<"a", NL, "b", NL, "c">>
ND == <<NL, "d">>
PARTIAL == <<"p", "a", "r", "t", "i", "a", "l">>
LINE_NL == <<" ", "l", "i", "n", "e", NL>>
BigChunk == [i \in 1..BigLines |-> NL]

Chunks == {ABC, ND, PARTIAL, LINE_NL, BigChunk}
UIChunks == {ABC, LINE_NL}

RED_HI == <<ESC, "[", "3", "1", "m", "h", "i", ESC, "[", "0", "m", NL>>
AnsiChunks == {RED_HI, ABC}

LS == <<"l", "s">>
PWD == <<"p", "w", "d">>
ECHO_HI == <<"e", "c", "h", "o", " ", "h", "i">>
BLANK == <<" ">>

Inputs == {<<>>, BLANK, LS, PWD, ECHO_HI}

MY_DIR == <<"/", "t", "m", "p", "/", "M", "y", " ", "D", "i", "r">>
HOME_DIR == <<"/", "h", "o", "m", "e">>
CD_HOME == <<"c", "d", " ", "/", "h", "o", "m", "e">>

Dirs == {InitialDir, MY_DIR}

HELLO_ANSI ==
    <<ESC, "[", "3", "1", "m", "H", "e", "l", "l", "o", ESC, "[", "0", "m">>
HELLO == <<"H", "e", "l", "l", "o">>

SanAlphabet == {ESC, "[", "m", "1"}
SanInputs == SeqsUpTo(SanAlphabet, MaxSanLen) \cup {HELLO_ANSI, HELLO}

----------------------------------------------------------------------------
(* Output scenarios: the shell prints, the UI thread drains and clears     *)

Init == PanelInit /\ SearchInit /\ sanIn = <<>> /\ sanOut = None

ShellPrints == Len(readLog) < MaxReads /\ \E c \in Chunks : RelayRead(c)

Next ==
    \/ ShellPrints \/ ShellExit \/ RelayStop
    \/ UpdateRecv \/ UpdateReturn \/ Clear

Spec == Init /\ [][Next]_vars

(* A shell that prints without end: the reader thread is ahead of the UI   *)
(* thread by at most MaxPending chunks                                     *)

FloodPrints == Len(channel) < MaxPending /\ RelayRead(LINE_NL)

NextFlood == FloodPrints \/ UpdateRecv \/ UpdateReturn

\* Both threads run; the shell decides when it prints.
SpecFlood ==
    /\ Init /\ [][NextFlood]_vars
    /\ WF_vars(UpdateRecv) /\ WF_vars(UpdateReturn)

(* Colour scenarios: the shell prints escape sequences                     *)

AnsiPrints == Len(readLog) < MaxAnsiReads /\ \E c \in AnsiChunks : RelayRead(c)

NextAnsi == AnsiPrints \/ UpdateRecv \/ UpdateReturn \/ Clear

SpecAnsi == Init /\ [][NextAnsi]_vars

\* The same with a UI thread that runs: update keeps being called, and a
\* try_recv that can return a chunk does so.
SpecLive == Init /\ [][NextAnsi]_vars /\ WF_vars(UpdateRecv)

(* Input scenarios: the user types, submits and recalls while the shell    *)
(* prints a little                                                         *)

UIShellPrints == Len(readLog) < MaxUIReads /\ \E c \in UIChunks : RelayRead(c)
UIType == \E s \in Inputs : TypeInput(s)
UIEnter == enters < MaxEnters /\ Enter

NextUI ==
    \/ UIShellPrints \/ UpdateRecv \/ UpdateReturn
    \/ UIType \/ UIEnter \/ HistoryPrev \/ HistoryNext

SpecUI == Init /\ [][NextUI]_vars

(* Long sessions: the history is filled to its cap with one command; the   *)
(* user types freely and recalls only while it is short or full            *)

FreeZone == enters < FreeLen \/ Len(command_history) >= HistoryCap

HistInputs == {BLANK, LS, PWD}

HistType == \E s \in HistInputs : (FreeZone \/ s = LS) /\ TypeInput(s)
HistEnter ==
    /\ enters < HistoryCap + MaxEvict
    /\ FreeZone \/ input_buffer = LS
    /\ Enter
HistPrev == FreeZone /\ HistoryPrev
HistNext == FreeZone /\ HistoryNext

NextHist == HistType \/ HistEnter \/ HistPrev \/ HistNext

SpecHist == Init /\ [][NextHist]_vars

(* Writer scenarios: the file browser navigates, the user submits and      *)
(* interrupts                                                              *)

ShellInputs == {<<>>, LS, CD_HOME}

ShellType == \E s \in ShellInputs : TypeInput(s)
ShellEnter == enters < MaxWrites /\ Len(pty_in) < MaxWrites /\ Enter
ShellInterrupt == Len(pty_in) < MaxWrites /\ Interrupt
ShellSetDir == Len(pty_in) < MaxWrites /\ \E path \in Dirs : SetDirectory(path)

NextShell == ShellType \/ ShellEnter \/ ShellInterrupt \/ ShellSetDir

SpecShell == Init /\ [][NextShell]_vars

(* Teardown scenarios: the panel is dropped while the shell may still      *)
(* print or exit                                                           *)

\* Once the panel is gone the shell is free to print: the one chunk read
\* then ends the reader thread.
DropShellPrints ==
    /\ Len(readLog) < MaxDropReads \/ uiPc = "dropped"
    /\ \E c \in UIChunks : RelayRead(c)

NextDrop ==
    \/ DropShellPrints \/ ShellExit \/ RelayStop
    \/ UpdateRecv \/ UpdateReturn
    \/ DropWriter \/ DropPair \/ DropFields

SpecDrop == Init /\ [][NextDrop]_vars

\* A runnable thread runs: the drop goes on once begun, and the reader
\* thread's read returns once the shell side is closed.  Nothing makes the
\* shell print or exit.
SpecDropLive ==
    /\ Init /\ [][NextDrop]_vars
    /\ WF_vars(DropPair) /\ WF_vars(DropFields) /\ WF_vars(RelayStop)

(* Navigation scenarios: the file browser navigates while the shell may    *)
(* exit, so that a cd may not be delivered                                 *)

NavSetDir == Len(pty_in) < MaxWrites /\ \E path \in Dirs : SetDirectory(path)
NavInterrupt == Len(pty_in) < MaxWrites /\ Interrupt

NextNav == NavSetDir \/ NavInterrupt \/ ShellExit

SpecNav == Init /\ [][NextNav]_vars

(* Search scenarios: searches are started while earlier ones still run     *)

Queries == {<<>>, <<"f", "n">>}

SearchType == \E q \in Queries : TypeQuery(q)
SearchExecute ==
    /\ \E t \in Threads : searchPc[t] = "none"
    /\ ExecuteSearchClear
SearchThread ==
    \E t \in Threads :
        SearchPush(t) \/ SearchWalkEnd(t) \/ SearchClearFlag(t)

NextSearch ==
    \/ SearchType \/ SearchExecute
    \/ ExecuteSearchSetFlag \/ ExecuteSearchSpawn
    \/ SearchThread

InitSearch == Init /\ spawnResult = "ready"

SpecSearch == InitSearch /\ [][NextSearch]_vars

(* The sanitizer on its own                                                *)

InitSan == PanelInit /\ SearchInit /\ sanIn \in SanInputs /\ sanOut = None

NextSan == StripCall

SpecSan == InitSan /\ [][NextSan]_vars

----------------------------------------------------------------------------
(* Properties of the scrollback                                            *)

\* The chunks processed since the Clear that last emptied the scrollback.
SinceClear == SubSeq(applied, clearedAt + 1, Len(applied))

PARTIAL_LINE == <<"p", "a", "r", "t", "i", "a", "l", " ", "l", "i", "n", "e">>

\* C1: from an empty scrollback, processing "a\nb\nc" and then "\nd" leaves
\* exactly the four lines a, b, c, d.
C1_AbcThenNd ==
    (clearedAt >= 0 /\ SinceClear = <<ABC, ND>>)
        => scrollback = << <<"a">>, <<"b">>, <<"c">>, <<"d">> >>

\* C2: from an empty scrollback, processing "partial" and then " line\n"
\* leaves the single line "partial line": the first segment of a chunk
\* continues the line the chunk before it left unfinished.
C2_PartialThenLine ==
    (clearedAt >= 0 /\ SinceClear = <<PARTIAL, LINE_NL>>)
        => scrollback = <<PARTIAL_LINE>>

\* after holds the newest lines of built, in their order, and as many of
\* them as the cap allows: built is after with only front lines removed.
KeepsNewest(built, after) ==
    LET removed == Len(built) - Len(after)
    IN  /\ Len(after) = Min(Len(built), ScrollbackCap)
        /\ built = SubSeq(built, 1, removed) \o after

\* C3: the scrollback never holds more than 1000 lines, and a call of
\* process_output leaves the newest lines of what its loop built, in order:
\* only lines at the front are removed.
C3_CapEvictsOldest ==
    /\ [](Len(scrollback) <= ScrollbackCap)
    /\ [][applied' # applied =>
            KeepsNewest(PushLines(scrollback,
                                  Split(applied'[Len(applied')]),
                                  EndsWithNL(applied'[Len(applied')])),
                        scrollback')]_vars

\* More than 1000 lines were pushed since construction and the newest one
\* is at the end of a full scrollback.
C3_Witness ==
    /\ lastOp = "update"
    /\ Len(scrollback) = ScrollbackCap
    /\ Len(applied) >= 3
    /\ applied[Len(applied)] = ABC
    /\ scrollback[ScrollbackCap] = <<"b", "c">>

\* C4: the chunks given to process_output, followed by the chunks still in
\* the channel, are the chunks the reader thread read, in the order it read
\* them: none is applied early, twice or not at all.
C4_AppliedInReadOrder == applied \o channel = readLog

\* The reader thread has enqueued a chunk while update() was draining, and
\* two different chunks have been applied.
C4_Witness ==
    /\ uiPc = "update"
    /\ channel # <<>>
    /\ Len(applied) >= 2
    /\ applied[1] # applied[2]

----------------------------------------------------------------------------
(* Properties of update() against the rest of the panel                    *)

UpdateStep == UpdateRecv \/ UpdateReturn

\* C5: with no chunk pending, update() can always take its step at once,
\* the step ends the call, and it leaves the scrollback, the command
\* history, the history cursor and the input line as they were.
C5_EmptyUpdateReturns ==
    /\ [](channel = <<>> => ENABLED UpdateStep)
    /\ [][(channel = <<>> /\ UpdateStep) =>
            /\ uiPc' = "idle"
            /\ UNCHANGED <<scrollback, command_history, history_index,
                           input_buffer, channel>>]_vars

\* update() has just returned on an empty channel while a command is
\* being recalled from a non-empty history.
C5_Witness ==
    /\ lastOp = "update"
    /\ uiPc = "idle"
    /\ channel = <<>>
    /\ applied = <<>>
    /\ command_history # <<>>
    /\ history_index # None
    /\ input_buffer # <<>>

----------------------------------------------------------------------------
(* Properties of the command history                                       *)

H3 == <<LS, PWD, ECHO_HI>>

\* C9: with "ls", "pwd", "echo hi" submitted in that order, history_prev
\* from rest recalls "echo hi", history_prev again recalls "pwd",
\* history_next then recalls "echo hi", and history_next once more puts the
\* cursor back to None and empties the input line.
C9_RecallWalk ==
    [][command_history = H3 =>
        /\ (history_index = None /\ HistoryPrev)
              => (history_index' = Some(2) /\ input_buffer' = ECHO_HI)
        /\ (history_index = Some(2) /\ HistoryPrev)
              => (history_index' = Some(1) /\ input_buffer' = PWD)
        /\ (history_index = Some(1) /\ HistoryNext)
              => (history_index' = Some(2) /\ input_buffer' = ECHO_HI)
        /\ (history_index = Some(2) /\ HistoryNext)
              => (history_index' = None /\ input_buffer' = <<>>)]_vars

\* The three commands were submitted, one of them was recalled, and
\* history_next has walked past the newest entry.
C9_Witness ==
    /\ command_history = H3
    /\ lastOp = "history_next"
    /\ history_index = None
    /\ input_buffer = <<>>
    /\ pty_in = <<LS \o <<NL>>, PWD \o <<NL>>, ECHO_HI \o <<NL>>>>

\* C10: the history never holds more than 100 entries, and a submission
\* made when it holds 100 drops the oldest entry, moves every other entry
\* one place to the front and puts the new command last.
C10_HistoryCapEvictsOldest ==
    /\ [](Len(command_history) <= HistoryCap)
    /\ [][(Enter /\ ~TrimIsEmpty(input_buffer)
                 /\ Len(command_history) = HistoryCap) =>
            /\ Len(command_history') = HistoryCap
            /\ \A i \in 1..(HistoryCap - 1) :
                   command_history'[i] = command_history[i + 1]
            /\ command_history'[HistoryCap] = input_buffer]_vars

\* "pwd" was the first command written to the shell and is no longer the
\* first entry of the full history: a submission has evicted it.
C10_Witness ==
    /\ lastOp = "enter"
    /\ Len(command_history) = HistoryCap
    /\ pty_in # <<>>
    /\ pty_in[1] = PWD \o <<NL>>
    /\ command_history[1] = LS
    /\ command_history[HistoryCap] = PWD

----------------------------------------------------------------------------
(* Properties of strip_ansi_escapes                                        *)

HasEsc(s) == \E i \in 1..Len(s) : s[i] = ESC

\* C6: the result holds no escape character and is not longer than the
\* argument.
C6_NoEscNotLonger ==
    sanOut # None => (~HasEsc(sanOut[1]) /\ Len(sanOut[1]) <= Len(sanIn))

\* An argument with an escape character that starts no CSI sequence has
\* been stripped to something shorter.
C6_Witness ==
    /\ sanOut # None
    /\ Len(sanIn) = MaxSanLen
    /\ sanIn[MaxSanLen] = ESC
    /\ sanIn[1] = "m"
    /\ Len(sanOut[1]) < Len(sanIn)

\* C7: an argument without an escape character comes back unchanged, and
\* stripping a result again changes nothing.
C7_PlainTextUnchanged ==
    sanOut # None =>
        /\ ~HasEsc(sanIn) => sanOut[1] = sanIn
        /\ strip_ansi_escapes(sanOut[1]) = sanOut[1]

\* Plain text with a bracket and a letter in it has been stripped.
C7_Witness ==
    /\ sanOut # None
    /\ ~HasEsc(sanIn)
    /\ \E i \in 1..Len(sanIn) : sanIn[i] = "["
    /\ \E i \in 1..Len(sanIn) : sanIn[i] = "m"
    /\ sanOut[1] = sanIn

\* A CSI sequence is open after position i of s: it started at or before i
\* with an escape character followed by '[' and has not met its letter yet.
RECURSIVE CsiOpenAfter(_, _)
CsiOpenAfter(s, i) ==
    IF i = 0 THEN FALSE
    ELSE IF CsiOpenAfter(s, i - 1) THEN ~is_ascii_alphabetic(s[i])
    ELSE s[i] = ESC /\ i < Len(s) /\ s[i + 1] = "["

\* Position i of s belongs to a CSI sequence, its final letter included.
InCsi(s, i) == CsiOpenAfter(s, i - 1) \/ CsiOpenAfter(s, i)

\* The characters of s from position i on that are outside every CSI
\* sequence; the escape characters among them are kept iff keepEsc.
RECURSIVE OutsideCsi(_, _, _)
OutsideCsi(s, i, keepEsc) ==
    IF i > Len(s) THEN <<>>
    ELSE (IF ~InCsi(s, i) /\ (keepEsc \/ s[i] # ESC) THEN <<s[i]>> ELSE <<>>)
         \o OutsideCsi(s, i + 1, keepEsc)

\* C8 as stated: every CSI sequence is removed up to and including its
\* first letter (or to the end of the text), every character outside the
\* CSI sequences is kept, in order; ESC[31m Hello ESC[0m gives Hello.
C8_Original ==
    sanOut # None =>
        /\ sanOut[1] = OutsideCsi(sanIn, 1, TRUE)
        /\ sanIn = HELLO_ANSI => sanOut[1] = HELLO

\* C8 as amended: the same, except that an escape character outside the
\* CSI sequences is removed too.
C8_CsiRemovedRestKept ==
    sanOut # None =>
        /\ sanOut[1] = OutsideCsi(sanIn, 1, FALSE)
        /\ sanIn = HELLO_ANSI => sanOut[1] = HELLO

\* The example has been stripped.
C8_Witness == sanOut = Some(HELLO) /\ sanIn = HELLO_ANSI

----------------------------------------------------------------------------
(* Submitting from the input line                                          *)

\* C11: a submission of a command (a line that is not blank) leaves the
\* history cursor at None, whatever the cursor was before.
C11_SubmitResetsCursor ==
    [][(Enter /\ ~TrimIsEmpty(input_buffer)) => history_index' = None]_vars

\* A command has been submitted while an entry was recalled, and the cursor
\* is back to None.
C11_Witness ==
    /\ lastOp = "enter"
    /\ enterRecalled
    /\ history_index = None
    /\ Len(command_history) >= 2

\* C14: Enter on an empty input line sends one bare newline to the shell
\* and changes neither the history entries nor the history cursor.
C14_EmptyEnterSendsNewline ==
    [][(Enter /\ input_buffer = <<>>) =>
          /\ pty_in' = IF pty_writer THEN Append(pty_in, <<NL>>) ELSE pty_in
          /\ UNCHANGED <<command_history, history_index>>]_vars

\* Enter has been pressed on an empty line during a recall: the newline is
\* the last write and the cursor still points at an entry.
C14_Witness ==
    /\ lastOp = "enter"
    /\ input_buffer = <<>>
    /\ enterRecalled
    /\ history_index # None
    /\ pty_writer
    /\ pty_in # <<>>
    /\ pty_in[Len(pty_in)] = <<NL>>

\* What a submission of the line does: the exact text is the new last
\* history entry, text and newline are written, the input line is empty.
Submitted ==
    /\ command_history' # <<>>
    /\ command_history'[Len(command_history')] = input_buffer
    /\ Len(command_history') = Min(Len(command_history) + 1, HistoryCap)
    /\ pty_in' = IF pty_writer
                 THEN Append(pty_in, input_buffer \o <<NL>>)
                 ELSE pty_in
    /\ input_buffer' = <<>>

\* C15 as stated: Enter on any non-empty input line, a line of spaces
\* included, submits the line.
C15_Original ==
    [][(Enter /\ input_buffer # <<>>) => Submitted]_vars

\* C15 as amended: Enter on an input line with at least one character that
\* is not whitespace submits the line.
C15_NonBlankSubmitted ==
    [][(Enter /\ ~TrimIsEmpty(input_buffer)) => Submitted]_vars

\* A command with a space inside has been submitted with a writer attached.
C15_Witness ==
    /\ lastOp = "enter"
    /\ input_buffer = <<>>
    /\ pty_writer
    /\ command_history # <<>>
    /\ command_history[Len(command_history)] = ECHO_HI
    /\ pty_in # <<>>
    /\ pty_in[Len(pty_in)] = ECHO_HI \o <<NL>>

----------------------------------------------------------------------------
(* Writes to the shell                                                     *)

\* C12: set_directory(path) writes cd, a space, the path in double quotes
\* and a newline, and only when path differs from the tracked directory;
\* with the tracked directory it writes nothing.
C12_SetDirectoryWritesCd ==
    [][\A path \in Dirs :
          SetDirectory(path) =>
              IF current_dir # path
              THEN /\ current_dir' = path
                   /\ pty_writer =>
                        pty_in' = Append(pty_in,
                            <<"c", "d", " ", "\"">> \o path \o <<"\"", NL>>)
              ELSE UNCHANGED <<pty_in, current_dir>>]_vars

\* The browser has moved to /tmp/My Dir and the quoted cd is the last write.
C12_Witness ==
    /\ lastOp = "set_directory"
    /\ pty_writer
    /\ current_dir = MY_DIR
    /\ pty_in # <<>>
    /\ pty_in[Len(pty_in)] =
          <<"c", "d", " ", "\"", "/", "t", "m", "p", "/", "M", "y", " ",
            "D", "i", "r", "\"", NL>>

\* C13: when the shell could not be spawned the panel exists with the one
\* error line in the scrollback, without writer, pair or reader thread;
\* submitting, interrupting and set_directory stay possible and write
\* nothing.
C13_SpawnFailureIsInert ==
    spawnResult = "spawn_failed" =>
        /\ scrollback = <<ShellSpawnError>>
        /\ ~pty_writer /\ ~pty_pair /\ relayPc = "none"
        /\ pty_in = <<>> /\ readLog = <<>>
        /\ ENABLED Enter
        /\ ENABLED Interrupt
        /\ \A path \in Dirs : ENABLED SetDirectory(path)

\* After a failed spawn a command was submitted, the directory was changed
\* and Ctrl+C was pressed.
C13_Witness ==
    /\ spawnResult = "spawn_failed"
    /\ command_history # <<>>
    /\ current_dir = MY_DIR
    /\ lastOp = "interrupt"

\* C16: Ctrl+C writes the one byte 0x03 to the shell and changes none of
\* input line, history, history cursor, scrollback and tracked directory.
C16_InterruptWritesEtx ==
    [][Interrupt =>
          /\ pty_in' = IF pty_writer THEN Append(pty_in, <<ETX>>) ELSE pty_in
          /\ UNCHANGED <<input_buffer, command_history, history_index,
                         scrollback, current_dir>>]_vars

\* Ctrl+C was pressed with text on the input line and a history.
C16_Witness ==
    /\ lastOp = "interrupt"
    /\ pty_writer
    /\ pty_in # <<>>
    /\ pty_in[Len(pty_in)] = <<ETX>>
    /\ input_buffer # <<>>
    /\ command_history # <<>>

\* The write is a cd command line.
IsCd(w) == Len(w) >= 5 /\ SubSeq(w, 1, 3) = <<"c", "d", " ">>

\* The argument of a cd command line, without the double quotes around it.
CdTarget(w) ==
    LET arg == SubSeq(w, 4, Len(w) - 1)
    IN  IF Len(arg) >= 2 /\ arg[1] = "\"" /\ arg[Len(arg)] = "\""
        THEN SubSeq(arg, 2, Len(arg) - 1)
        ELSE arg

\* The directory the shell was last told to enter by the first i writes:
\* the directory it was spawned in unless a cd was written.
RECURSIVE ShellDir(_, _)
ShellDir(writes, i) ==
    IF i = 0 THEN InitialDir
    ELSE IF IsCd(writes[i]) THEN CdTarget(writes[i])
    ELSE ShellDir(writes, i - 1)

\* C17: with a shell attached, the directory the shell was last told to
\* enter (at its spawn, by set_directory or by a submitted cd) is the
\* tracked directory, and set_directory leaves its argument tracked.
C17_TrackedDirIsShellDir ==
    /\ [](spawnResult = "ready" =>
             ShellDir(pty_in, Len(pty_in)) = current_dir)
    /\ [][\A path \in Dirs : SetDirectory(path) => current_dir' = path]_vars

----------------------------------------------------------------------------
(* Teardown and the reader thread                                          *)

\* C18: in a teardown the writer is released before the pair: the step
\* that releases the writer keeps the pair, no step releases the pair
\* while the writer is held, and past the second statement of drop both
\* are released.
C18_WriterReleasedBeforePair ==
    /\ [][(pty_writer /\ ~pty_writer') => pty_pair' = pty_pair]_vars
    /\ [][(pty_pair /\ ~pty_pair') => ~pty_writer]_vars
    /\ [](uiPc = "dropping" => ~pty_writer)
    /\ [](uiPc \in {"fields", "dropped"} => ~pty_writer /\ ~pty_pair)

\* A panel with an established session is between the two statements of
\* drop: the writer is released and the pair is held.
C18_Witness ==
    /\ spawnResult = "ready"
    /\ uiPc = "dropping"
    /\ ~pty_writer
    /\ pty_pair

\* C19: after a teardown the reader thread is not left blocked: it
\* eventually leaves its loop.
C19_RelayExitsAfterTeardown ==
    (uiPc = "dropped") ~> (relayPc # "run")

----------------------------------------------------------------------------
(* Establishment failures and the reader thread's loop                     *)

\* C21: every establishment failure leaves one diagnostic line in the
\* scrollback and an inert panel, nothing being written to a shell, and the
\* panel holds a writer only if a reader was handed to a reader thread and
\* the pair is held.
C21_WriterOnlyWithReaderAndPair ==
    /\ spawnResult # "ready" =>
          scrollback \in {<<PtyOpenError>>, <<ShellSpawnError>>,
                          <<WriterError>>, <<ReaderError>>}
    /\ spawnResult # "ready" => pty_in = <<>>
    /\ pty_writer => (relayPc # "none" /\ pty_pair)

\* C22: the reader thread sends one chunk for each read that returns
\* data, in order; it leaves its loop only at the end of the stream, at a
\* read error or at a failed send, and at the first of them; once it has
\* left the loop it reads and sends nothing.
C22_RelayChunkPerReadThenStops ==
    /\ [](uiPc \notin {"fields", "dropped"} => applied \o channel = readLog)
    /\ [][readLog' # readLog =>
            /\ relayPc = "run"
            /\ Len(readLog') = Len(readLog) + 1
            /\ IF uiPc # "dropped"
               THEN /\ channel' = Append(channel, readLog'[Len(readLog')])
                    /\ relayPc' = "run"
               ELSE /\ channel' = channel
                    /\ relayPc' = "done"]_vars
    /\ [][(relayPc = "run" /\ relayPc' # "run") =>
            /\ relayPc' = "done"
            /\ shell = "exited" \/ uiPc = "dropped"]_vars
    /\ [][shell = "exited" => readLog' = readLog]_vars
    /\ [][relayPc = "done" =>
            /\ relayPc' = "done"
            /\ readLog' = readLog
            /\ Len(channel') <= Len(channel)]_vars

\* The thread has relayed chunks to a living panel and has then left its
\* loop at a failed send, the shell still running.
C22_Witness ==
    /\ relayPc = "done"
    /\ uiPc = "dropped"
    /\ shell = "running"
    /\ applied # <<>>
    /\ Len(readLog) > Len(applied)

----------------------------------------------------------------------------
(* The drain loop of update                                                *)

\* C23: every call of update returns: a drain in progress ends, also when
\* the reader thread keeps sending chunks meanwhile.
C23_UpdateReturns ==
    (uiPc = "update") ~> (uiPc = "idle")

\* C30: while the panel lives and update keeps being called, every chunk
\* the reader thread has sent (the k-th, for every k the shell gets to) is
\* eventually applied to the scrollback, in its turn.
C30_ChunksEventuallyApplied ==
    \A k \in 1..MaxAnsiReads :
        (Len(readLog) >= k) ~> (Len(applied) >= k /\ applied[k] = readLog[k])

\* All the chunks of a session have been applied, the last of them in a
\* drain that the reader thread had run ahead of.
C30_Witness ==
    /\ Len(readLog) >= 3
    /\ applied = readLog
    /\ channel = <<>>
    /\ uiPc = "update"

----------------------------------------------------------------------------
(* What the scrollback stores                                              *)

\* C24: the chunks are sanitized before they are appended: no scrollback
\* entry holds an escape character.
C24_NoEscStored ==
    \A i \in 1..Len(scrollback) :
        \A j \in 1..Len(scrollback[i]) : scrollback[i][j] # ESC

\* C27: every scrollback entry is a single line: no entry holds a newline
\* character.
C27_NoNewlineStored ==
    \A i \in 1..Len(scrollback) :
        \A j \in 1..Len(scrollback[i]) : scrollback[i][j] # NL

\* The scrollback before the chunks counted by FragmentsSinceBase: empty
\* after a Clear, the welcome line before.
BaseScrollback ==
    IF clearedAt >= 0 THEN <<>> ELSE <<WelcomeLine(InitialDir)>>

FragmentsSinceBase == IF clearedAt >= 0 THEN SinceClear ELSE applied

\* C29: the scrollback does not depend on where the output was cut: two
\* fragments x and y applied one after the other leave the lines that the
\* one fragment x ++ y leaves.
C29_ChunkingIndependent ==
    Len(FragmentsSinceBase) = 2 =>
        scrollback = process_output(BaseScrollback,
                         FragmentsSinceBase[1] \o FragmentsSinceBase[2])

----------------------------------------------------------------------------
(* An escape character that starts no CSI sequence                         *)

\* Position i of s holds the first escape character of s, a character
\* other than '[' follows it.
LoneEscAt(s, i) ==
    /\ i < Len(s)
    /\ s[i] = ESC
    /\ s[i + 1] # "["
    /\ \A j \in 1..(i - 1) : s[j] # ESC

\* C25 as stated: the escape character and the character after it are
\* left out, and the rest is processed from the Normal state.
C25_Original ==
    sanOut # None =>
        \A i \in 1..Len(sanIn) :
            LoneEscAt(sanIn, i) =>
                sanOut[1] = SubSeq(sanIn, 1, i - 1)
                            \o strip_ansi_escapes(SubSeq(sanIn, i + 2, Len(sanIn)))

\* C25 as amended: only the escape character is left out; the character
\* after it and the rest are processed from the Normal state.
C25_LoneEscDroppedAlone ==
    sanOut # None =>
        \A i \in 1..Len(sanIn) :
            LoneEscAt(sanIn, i) =>
                sanOut[1] = SubSeq(sanIn, 1, i - 1)
                            \o strip_ansi_escapes(SubSeq(sanIn, i + 1, Len(sanIn)))

\* A text with an escape character before a plain character was stripped:
\* the plain character is in the result.
C25_Witness ==
    /\ sanIn = <<"1", ESC, "m", "1">>
    /\ sanOut = Some(<<"1", "m", "1">>)

----------------------------------------------------------------------------
(* The recall cursor                                                       *)

\* The history entry the cursor c points at.
EntryAt(h, c) == h[c[1] + 1]

\* C26: after every history_prev on a history that is not empty the input
\* line is the entry at the cursor, also when the cursor was at 0 and the
\* line was edited; after every history_next that moves the cursor to an
\* entry the input line is that entry.
C26_RecallShowsEntry ==
    /\ [][(HistoryPrev /\ command_history # <<>>) =>
            /\ history_index' # None
            /\ input_buffer' = EntryAt(command_history, history_index')]_vars
    /\ [][(HistoryNext /\ history_index' # history_index
                       /\ history_index' # None) =>
            input_buffer' = EntryAt(command_history, history_index')]_vars

\* C28: the cursor is None or an index of the history, whatever the order
\* of submissions, evictions, blank Enters and recalls; so history_next
\* never meets a cursor on an empty history.
C28_CursorValid ==
    history_index # None =>
        /\ command_history # <<>>
        /\ history_index[1] \in 0..(Len(command_history) - 1)

\* Entries have been evicted from the full history and its newest entry
\* is recalled.
C28_Witness ==
    /\ enters > HistoryCap
    /\ Len(command_history) = HistoryCap
    /\ history_index = Some(HistoryCap - 1)
    /\ input_buffer = command_history[HistoryCap]

----------------------------------------------------------------------------
(* The tracked directory and undelivered cd commands                       *)

\* C31: the tracked directory is the argument of the last set_directory
\* call, the initial directory before the first, with or without a writer
\* and whether or not the cd was delivered; a call with the tracked
\* directory writes nothing, so an undelivered cd is not sent again.
C31_TrackedDirIsLastSetDir ==
    /\ [](current_dir = IF lastSetDir = None THEN InitialDir
                        ELSE lastSetDir[1])
    /\ [][\A path \in Dirs :
            (SetDirectory(path) /\ current_dir = path) =>
                pty_in' = pty_in]_vars

\* The cd to /tmp/My Dir was written after the shell had exited and was
\* not delivered; set_directory was then called with that path again.
C31_Witness ==
    /\ lastOp = "set_directory"
    /\ setDirSame
    /\ lastSetDir = Some(MY_DIR)
    /\ current_dir = MY_DIR
    /\ pty_writer
    /\ shell = "exited"
    /\ \A i \in 1..Len(pty_in) : pty_in[i] # cd_command(MY_DIR)

----------------------------------------------------------------------------
(* The search panel's shared state                                         *)

\* Thread t has been started and has not yet cleared the flag.
SearchRunning(t) == searchPc[t] \in {"walk", "returned"}

\* C32: is_searching is true whenever a search thread is still running,
\* and the results list never holds more than 1000 entries, also when a
\* search is started while the thread of an earlier one runs.
C32_FlagCoversThreadsAndCap ==
    /\ (\E t \in Threads : SearchRunning(t)) => is_searching
    /\ results <= ResultsCap

====
